---------------------------- MODULE Spec2Model ----------------------------
(***************************************************************************)
(* Model of the financial projection engine of the AI investment           *)
(* dashboard: calculate_financials (use_case_dashboard_app.py) and the     *)
(* row highlighting of the summary table that consumes its ledger.         *)
(*                                                                         *)
(* Amounts are Python floats in the source.  They are modelled as exact    *)
(* rationals [n, d] in lowest terms, so every equality below is the        *)
(* real-number equality that the floats approximate; binary rounding of    *)
(* the floats is outside the model.  A division whose operands are numpy   *)
(* floats follows IEEE-754 on a zero divisor (inf, -inf, nan), which is    *)
(* kept as a tagged value.                                                 *)
(***************************************************************************)
EXTENDS Integers, Sequences, FiniteSets, TLC

(***************************************************************************)
(* Bounds of the explored input space.                                     *)
(***************************************************************************)
MaxHorizon == 4
MaxVolume == 1
MaxInvestment == 2
RateSteps == 2
MaxDiscountSteps == 1
TransactionValue == 2
TransactionCost == 1

(***************************************************************************)
(* Exact rational arithmetic standing for the float operators.             *)
(***************************************************************************)
Abs(x) == IF x < 0 THEN -x ELSE x

RECURSIVE GCD(_, _)
GCD(a, b) == IF b = 0 THEN a ELSE GCD(b, a % b)

Rat(num, den) ==
    LET g == GCD(Abs(num), Abs(den))
        s == IF den < 0 THEN -1 ELSE 1
    IN  [n |-> s * (num \div g), d |-> s * (den \div g)]

Zero == [n |-> 0, d |-> 1]

One == [n |-> 1, d |-> 1]

Int2Q(i) == [n |-> i, d |-> 1]

QAdd(a, b) ==
    LET l == (a.d \div GCD(a.d, b.d)) * b.d
    IN  Rat(a.n * (l \div a.d) + b.n * (l \div b.d), l)

QNeg(a) == [n |-> -a.n, d |-> a.d]

QSub(a, b) == QAdd(a, QNeg(b))

QMul(a, b) ==
    LET g1 == GCD(Abs(a.n), b.d)
        g2 == GCD(Abs(b.n), a.d)
    IN  IF a.n = 0 \/ b.n = 0
        THEN Zero
        ELSE [n |-> (a.n \div g1) * (b.n \div g2),
              d |-> (a.d \div g2) * (b.d \div g1)]

QInv(a) == IF a.n < 0 THEN [n |-> -a.d, d |-> -a.n] ELSE [n |-> a.d, d |-> a.n]

QDiv(a, b) == QMul(a, QInv(b))

QAbs(a) == [n |-> Abs(a.n), d |-> a.d]

QPos(a) == a.n > 0

QLess(a, b) == QSub(a, b).n < 0

QLeq(a, b) == QSub(a, b).n <= 0

QMin(a, b) == IF QLess(b, a) THEN b ELSE a

RECURSIVE QPow(_, _)
QPow(a, k) == IF k = 0 THEN One ELSE QMul(a, QPow(a, k - 1))

RECURSIVE QSum(_)
QSum(s) == IF s = <<>> THEN Zero ELSE QAdd(QSum(SubSeq(s, 1, Len(s) - 1)), s[Len(s)])

(***************************************************************************)
(* numpy float64 values: a finite number, or what a zero divisor yields.   *)
(***************************************************************************)
Num(q) == [kind |-> "num", val |-> q]

Inf == [kind |-> "inf", val |-> Zero]

NegInf == [kind |-> "-inf", val |-> Zero]

NaN == [kind |-> "nan", val |-> Zero]

NotAchieved == [kind |-> "N/A", val |-> Zero]

Unset == [kind |-> "unset", val |-> Zero]

FloatDiv(a, b) ==
    IF b.n # 0 THEN Num(QDiv(a, b))
    ELSE IF a.n > 0 THEN Inf
    ELSE IF a.n < 0 THEN NegInf
    ELSE NaN

FloatScale(f, q) ==
    IF f.kind = "num" THEN Num(QMul(f.val, q))
    ELSE IF f.kind = "nan" \/ q.n = 0 THEN NaN
    ELSE IF q.n > 0 THEN f
    ELSE IF f.kind = "inf" THEN NegInf ELSE Inf

FloatShift(i, f) == IF f.kind = "num" THEN Num(QAdd(Int2Q(i), f.val)) ELSE f

(***************************************************************************)
(* The use case catalog: the factors the engine reads from a template.     *)
(***************************************************************************)
UseCaseTemplate(volume, value, cost, rev, sav, lift, savings, investment, maintenance) ==
    [ base_volume             |-> volume,
      base_value              |-> Int2Q(value),
      process_cost            |-> Int2Q(cost),
      revenue_factor          |-> Rat(rev, 100),
      savings_factor          |-> Rat(sav, 100),
      default_revenue_lift    |-> Rat(lift, 100),
      default_cost_savings    |-> Rat(savings, 100),
      default_investment      |-> Int2Q(investment),
      default_maintenance_pct |-> Rat(maintenance, 100) ]

USE_CASE_TEMPLATES ==
    [ order_management   |-> UseCaseTemplate(50000, 2500, 85, 65, 35, 18, 25, 500000, 20),
      invoice_processing |-> UseCaseTemplate(120000, 3500, 45, 45, 55, 22, 30, 450000, 18),
      claims_processing  |-> UseCaseTemplate(85000, 4200, 120, 50, 50, 28, 35, 650000, 22),
      customer_service   |-> UseCaseTemplate(250000, 85, 12, 40, 60, 15, 45, 380000, 25) ]

TemplateKeys == DOMAIN USE_CASE_TEMPLATES

(***************************************************************************)
(* calculate_financials: the derived amounts.                              *)
(***************************************************************************)
annual_maintenance(a) == QMul(a.initial_investment, a.annual_maintenance_pct)

revenue_lift_amount(a) ==
    QMul(QMul(QMul(Int2Q(a.base_volume), a.base_value),
              USE_CASE_TEMPLATES[a.template].revenue_factor),
         a.revenue_lift_pct)

cost_savings_amount(a) ==
    QMul(QMul(QMul(Int2Q(a.base_volume), a.process_cost),
              USE_CASE_TEMPLATES[a.template].savings_factor),
         a.cost_savings_pct)

Year0Fraction == Rat(15, 100)

Year0Row(a) ==
    LET year0_benefit == QMul(QAdd(revenue_lift_amount(a), cost_savings_amount(a)), Year0Fraction)
        year0_net == QSub(year0_benefit, a.initial_investment)
    IN  [ year                |-> 0,
          investment_cost     |-> a.initial_investment,
          maintenance_cost    |-> Zero,
          revenue_lift        |-> QMul(revenue_lift_amount(a), Year0Fraction),
          cost_savings        |-> QMul(cost_savings_amount(a), Year0Fraction),
          operational_benefit |-> year0_benefit,
          net_cash_flow       |-> year0_net,
          cumulative_cf       |-> year0_net,
          discounted_cf       |-> QDiv(year0_net, QPow(QAdd(One, a.discount_rate), 0)) ]

ramp_factor_uncapped(y) == QAdd(Rat(6, 10), QMul(Int2Q(y), Rat(15, 100)))

ramp_factor(y) == QMin(QAdd(Rat(6, 10), QMul(Int2Q(y), Rat(15, 100))), One)

growth_factor_decay(y) == QSub(One, QMul(Rat(3, 100), Int2Q(y - 1)))

growth_factor(y) == QAdd(One, QMul(Rat(3, 100), Int2Q(y - 1)))

year_revenue(a, y) == QMul(QMul(revenue_lift_amount(a), ramp_factor(y)), growth_factor(y))

year_savings(a, y) == QMul(QMul(cost_savings_amount(a), ramp_factor(y)), growth_factor(y))

Accumulate_Overwrite(cum, net) == net

Accumulate(cum, net) == QAdd(cum, net)

discounted_cf(a, y, net) == QDiv(net, QPow(QAdd(One, a.discount_rate), y))

YearRow(a, y, cum) ==
    LET rev == year_revenue(a, y)
        sav == year_savings(a, y)
        ben == QAdd(rev, sav)
        net == QSub(ben, annual_maintenance(a))
    IN  [ year                |-> y,
          investment_cost     |-> Zero,
          maintenance_cost    |-> annual_maintenance(a),
          revenue_lift        |-> rev,
          cost_savings        |-> sav,
          operational_benefit |-> ben,
          net_cash_flow       |-> net,
          cumulative_cf       |-> Accumulate(cum, net),
          discounted_cf       |-> discounted_cf(a, y, net) ]

InRange_Exclusive(y, horizon) == y < horizon

InRange(y, horizon) == y <= horizon

(***************************************************************************)
(* calculate_financials: the summary metrics.                              *)
(***************************************************************************)
Column(df, f) == [i \in 1..Len(df) |-> df[i][f]]

Npv_SkipYear0(df) == QSum(SubSeq(Column(df, "discounted_cf"), 2, Len(df)))

Npv(df) == QSum(Column(df, "discounted_cf"))

TotalBenefits(df) == QSum(Column(df, "operational_benefit"))

TotalCosts_OneYear(a) == QAdd(a.initial_investment, annual_maintenance(a))

TotalCosts(a) ==
    QAdd(a.initial_investment, QMul(annual_maintenance(a), Int2Q(a.time_horizon)))

Roi(total_benefits, total_costs) ==
    FloatScale(FloatDiv(QSub(total_benefits, total_costs), total_costs), Int2Q(100))

Crossed(cf) == QPos(cf)

Interpolate_NoAbs(idx, prev_cf, curr_cf) ==
    FloatShift(idx - 1, FloatDiv(prev_cf, QSub(curr_cf, prev_cf)))

Interpolate_FromCrossingYear(idx, prev_cf, curr_cf) ==
    FloatShift(idx, FloatDiv(QAbs(prev_cf), QSub(curr_cf, prev_cf)))

Interpolate(idx, prev_cf, curr_cf) ==
    FloatShift(idx - 1, FloatDiv(QAbs(prev_cf), QSub(curr_cf, prev_cf)))

\* The scan over df.iterrows(): i is the position in the ledger, idx = i - 1.
RECURSIVE PaybackScan(_, _)
PaybackScan(cum, i) ==
    IF i > Len(cum) THEN NotAchieved
    ELSE IF Crossed(cum[i])
         THEN IF i - 1 = 0 THEN Num(Zero) ELSE Interpolate(i - 1, cum[i - 1], cum[i])
         ELSE PaybackScan(cum, i + 1)

Payback(df) == PaybackScan(Column(df, "cumulative_cf"), 1)

Metrics(df, a) ==
    LET total_benefits == TotalBenefits(df)
        total_costs == TotalCosts(a)
    IN  [ npv            |-> Npv(df),
          roi            |-> Roi(total_benefits, total_costs),
          payback        |-> Payback(df),
          total_benefits |-> total_benefits,
          total_costs    |-> total_costs ]

NoMetrics ==
    [ npv |-> Zero, roi |-> Unset, payback |-> Unset,
      total_benefits |-> Zero, total_costs |-> Zero ]

(***************************************************************************)
(* The summary table: "${x:,.0f}" rounds to whole currency units (half to  *)
(* even) and highlight_positive parses the text back.                      *)
(***************************************************************************)
Floor(q) == q.n \div q.d

FormatWhole(q) ==
    LET f == Floor(q)
        r == QSub(q, Int2Q(f))
    IN  IF QLess(r, Rat(1, 2)) THEN f
        ELSE IF QLess(Rat(1, 2), r) THEN f + 1
        ELSE IF f % 2 = 0 THEN f ELSE f + 1

highlight_positive(row) == FormatWhole(row.cumulative_cf) > 0

(***************************************************************************)
(* State.                                                                  *)
(***************************************************************************)
VARIABLES args, pc, years, cumulative_cf, year, metrics, styled

vars == <<args, pc, years, cumulative_cf, year, metrics, styled>>

Rates == {Rat(k, RateSteps) : k \in 0..RateSteps}

DiscountRates == {Rat(k, RateSteps) : k \in 0..MaxDiscountSteps}

Inputs ==
    [ template               : TemplateKeys,
      initial_investment     : {Int2Q(i) : i \in 0..MaxInvestment},
      annual_maintenance_pct : Rates,
      revenue_lift_pct       : Rates,
      cost_savings_pct       : Rates,
      discount_rate          : DiscountRates,
      time_horizon           : 0..MaxHorizon,
      base_volume            : 0..MaxVolume,
      base_value             : {Int2Q(TransactionValue)},
      process_cost           : {Int2Q(TransactionCost)} ]

Init ==
    /\ args \in Inputs
    /\ pc = "start"
    /\ years = <<>>
    /\ cumulative_cf = Zero
    /\ year = 0
    /\ metrics = NoMetrics
    /\ styled = <<>>

\* Lines 156-181: the derived amounts and the implementation year.
Year0 ==
    /\ pc = "start"
    /\ LET row == Year0Row(args)
       IN  /\ years' = <<row>>
           /\ cumulative_cf' = row.cumulative_cf
    /\ year' = 1
    /\ pc' = "loop"
    /\ UNCHANGED <<args, metrics, styled>>

\* Lines 184-206: one iteration of the loop over range(1, time_horizon + 1).
YearN ==
    /\ pc = "loop"
    /\ InRange(year, args.time_horizon)
    /\ LET row == YearRow(args, year, cumulative_cf)
       IN  /\ years' = Append(years, row)
           /\ cumulative_cf' = row.cumulative_cf
    /\ year' = year + 1
    /\ UNCHANGED <<args, pc, metrics, styled>>

\* Lines 208-237: the metrics, and the return of (df, metrics).
ComputeMetrics ==
    /\ pc = "loop"
    /\ ~InRange(year, args.time_horizon)
    /\ metrics' = Metrics(years, args)
    /\ pc' = "done"
    /\ UNCHANGED <<args, years, cumulative_cf, year, styled>>

\* Lines 518-524: the styling of the summary table, row by row.
Render ==
    /\ pc = "done"
    /\ styled' = [i \in 1..Len(years) |-> highlight_positive(years[i])]
    /\ pc' = "rendered"
    /\ UNCHANGED <<args, years, cumulative_cf, year, metrics>>

Next == Year0 \/ YearN \/ ComputeMetrics \/ Render

Spec == Init /\ [][Next]_vars

\* Lines 359-453: the arguments main passes before any widget is touched.
DefaultArgs(key) ==
    [ template               |-> key,
      initial_investment     |-> USE_CASE_TEMPLATES[key].default_investment,
      annual_maintenance_pct |-> USE_CASE_TEMPLATES[key].default_maintenance_pct,
      revenue_lift_pct       |-> USE_CASE_TEMPLATES[key].default_revenue_lift,
      cost_savings_pct       |-> USE_CASE_TEMPLATES[key].default_cost_savings,
      discount_rate          |-> Rat(8, 100),
      time_horizon           |-> 5,
      base_volume            |-> USE_CASE_TEMPLATES[key].base_volume,
      base_value             |-> USE_CASE_TEMPLATES[key].base_value,
      process_cost           |-> USE_CASE_TEMPLATES[key].process_cost ]

(***************************************************************************)
(* Vocabulary of the properties: the ledger as returned, read column by    *)
(* column, with sums and the break-even year stated independently of the   *)
(* operators above.                                                        *)
(***************************************************************************)
Returned == pc \in {"done", "rendered"}

\* The properties below read the ledger and the metrics in the state "done",
\* the state calculate_financials returns them in.
Horizon == args.time_horizon

Cum(i) == years[i].cumulative_cf

Net(i) == years[i].net_cash_flow

RECURSIVE SumTo(_, _, _)
SumTo(df, f, k) == IF k = 0 THEN Zero ELSE QAdd(SumTo(df, f, k - 1), df[k][f])

Positive == {i \in 1..Len(years) : Cum(i).n > 0}

FirstPositive == CHOOSE i \in Positive : \A j \in Positive : i <= j

Crossings ==
    {i \in Positive : i = 1 \/ Cum(i - 1).n <= 0}

ExpectedRamp(y) == IF y = 1 THEN Rat(3, 4) ELSE IF y = 2 THEN Rat(9, 10) ELSE One

\* C1: for time_horizon >= 1 the returned ledger has time_horizon + 1 rows
\* whose 'year' values are 0, 1, ..., time_horizon in ascending order.
C1_LedgerYears ==
    (pc = "done" /\ Horizon >= 1) =>
        /\ Len(years) = Horizon + 1
        /\ \A i \in 1..Len(years) : years[i].year = i - 1

C1_Witness == pc = "done" /\ Horizon >= 3 /\ Len(years) = Horizon + 1

\* C2: a call with time_horizon = 0 never returns a ledger with metrics.
C2_ZeroHorizonFailsFast == (Horizon = 0) => ~Returned

\* C3: every row has operational_benefit = revenue_lift + cost_savings and
\* net_cash_flow = operational_benefit - investment_cost - maintenance_cost;
\* cumulative_cf is the running sum of net_cash_flow, so the last row's
\* cumulative_cf is the sum of net_cash_flow over all rows.
C3_RowIdentities ==
    (pc = "done") =>
        /\ \A i \in 1..Len(years) :
              /\ years[i].operational_benefit = QAdd(years[i].revenue_lift, years[i].cost_savings)
              /\ Net(i) = QSub(QSub(years[i].operational_benefit, years[i].investment_cost),
                               years[i].maintenance_cost)
              /\ Cum(i) = IF i = 1 THEN Net(1) ELSE QAdd(Cum(i - 1), Net(i))
        /\ Cum(Len(years)) = SumTo(years, "net_cash_flow", Len(years))

C3_Witness ==
    /\ pc = "done"
    /\ Horizon >= 3
    /\ years[1].revenue_lift.n > 0
    /\ years[1].cost_savings.n > 0
    /\ years[2].maintenance_cost.n > 0

\* C4: payback is decided by the first year y with cumulative_cf[y] > 0:
\* 0 when y = 0, (y-1) + |cumulative_cf[y-1]| / (cumulative_cf[y] -
\* cumulative_cf[y-1]) when y >= 1, and the non-numeric 'N/A' when no year
\* qualifies; a crossing from -100 at year 2 to +50 at year 3 gives 2 + 100/150.
C4_Payback ==
    (pc = "done") =>
        /\ IF Positive = {} THEN metrics.payback = NotAchieved
           ELSE IF FirstPositive = 1 THEN metrics.payback = Num(Zero)
           ELSE metrics.payback =
                   Num(QAdd(Int2Q(FirstPositive - 2),
                            QDiv(QAbs(Cum(FirstPositive - 1)),
                                 QSub(Cum(FirstPositive), Cum(FirstPositive - 1)))))
        /\ PaybackScan(<<Int2Q(-300), Int2Q(-200), Int2Q(-100), Int2Q(50)>>, 1)
              = Num(QAdd(Int2Q(2), Rat(100, 150)))

C4_Witness ==
    /\ pc = "done"
    /\ Positive # {}
    /\ FirstPositive = 4
    /\ Cum(3).n < 0
    /\ metrics.payback.kind = "num"

\* C5: with total_costs = 0 (and a valid time_horizon >= 1) the returned ROI
\* is a defined value, never the undefined result of dividing by zero.
C5_RoiDefinedAtZeroCosts ==
    (pc = "done" /\ Horizon >= 1 /\ metrics.total_costs = Zero) => metrics.roi.kind # "nan"

\* C6: when the interpolation branch is taken at crossing year y >= 1 the
\* denominator cumulative_cf[y] - cumulative_cf[y-1] is strictly positive,
\* the payback is a finite number and it lies in [y-1, y).
C6_InterpolationSafe ==
    (pc = "done" /\ Positive # {} /\ FirstPositive >= 2) =>
        LET y == FirstPositive - 1
        IN  /\ QSub(Cum(FirstPositive), Cum(FirstPositive - 1)).n > 0
            /\ Cum(FirstPositive - 1).n <= 0
            /\ metrics.payback.kind = "num"
            /\ QLeq(Int2Q(y - 1), metrics.payback.val)
            /\ QLess(metrics.payback.val, Int2Q(y))

C6_Witness ==
    /\ pc = "done"
    /\ Positive # {}
    /\ FirstPositive >= 3
    /\ QLess(Int2Q(FirstPositive - 2), metrics.payback.val)

\* C7: NPV is the sum of discounted_cf over all rows, discounted_cf[0] =
\* net_cash_flow[0] and discounted_cf[y] * (1 + discount_rate)^y =
\* net_cash_flow[y]; with discount_rate = 0 every discounted_cf equals
\* net_cash_flow and NPV equals the last row's cumulative_cf.
C7_Npv ==
    (pc = "done") =>
        /\ metrics.npv = SumTo(years, "discounted_cf", Len(years))
        /\ years[1].discounted_cf = Net(1)
        /\ \A i \in 1..Len(years) :
              QMul(years[i].discounted_cf, QPow(QAdd(One, args.discount_rate), i - 1)) = Net(i)
        /\ args.discount_rate = Zero =>
              /\ \A i \in 1..Len(years) : years[i].discounted_cf = Net(i)
              /\ metrics.npv = Cum(Len(years))

C7_Witness ==
    /\ pc = "done"
    /\ args.discount_rate = Zero
    /\ Horizon >= 2
    /\ Net(1).n # 0
    /\ Net(2).n # 0
    /\ metrics.npv = Cum(Len(years))

\* C8: year 0 charges the whole investment, no maintenance, and realises 15%
\* of the steady-state amounts (1,749,531.25 net for the order management
\* defaults); every later year y charges no investment, maintenance =
\* initial_investment * annual_maintenance_pct, and realises the steady-state
\* amounts times the ramp 0.75, 0.90, then 1.0 from year 3 on, times
\* 1 + 0.03*(y-1).
C8_Schedule ==
    (pc = "done") =>
        /\ \A i \in 1..Len(years) :
              LET y == i - 1
                  g == Rat(100 + 3 * (y - 1), 100)
              IN  IF y = 0
                  THEN /\ years[i].investment_cost = args.initial_investment
                       /\ years[i].maintenance_cost = Zero
                       /\ years[i].revenue_lift = QMul(Rat(3, 20), revenue_lift_amount(args))
                       /\ years[i].cost_savings = QMul(Rat(3, 20), cost_savings_amount(args))
                       /\ Net(i) = QSub(QMul(Rat(3, 20), QAdd(revenue_lift_amount(args),
                                                              cost_savings_amount(args))),
                                        args.initial_investment)
                  ELSE /\ years[i].investment_cost = Zero
                       /\ years[i].maintenance_cost =
                             QMul(args.initial_investment, args.annual_maintenance_pct)
                       /\ years[i].revenue_lift =
                             QMul(revenue_lift_amount(args), QMul(ExpectedRamp(y), g))
                       /\ years[i].cost_savings =
                             QMul(cost_savings_amount(args), QMul(ExpectedRamp(y), g))
        /\ \A y \in 1..(MaxHorizon + 3) : ramp_factor(y) = ExpectedRamp(y)
        /\ Year0Row(DefaultArgs("order_management")).net_cash_flow = Rat(174953125, 100)

C8_Witness ==
    /\ pc = "done"
    /\ Horizon >= 4
    /\ years[5].revenue_lift.n > 0
    /\ years[5].cost_savings.n > 0
    /\ years[5].maintenance_cost.n > 0

\* C9: for inputs in the documented domains net_cash_flow is non-decreasing
\* over years 1..time_horizon, so once cumulative_cf is > 0 it stays > 0:
\* the rows with positive cumulative_cf form a suffix of the ledger, there
\* is at most one break-even crossing, and the highlighted rows of the
\* summary table form a suffix too.
C9_PositiveSuffix ==
    /\ (pc = "done") =>
          /\ \A i \in 2..(Len(years) - 1) : QLeq(Net(i), Net(i + 1))
          /\ \A i \in 1..Len(years) : \A j \in i..Len(years) :
                (Cum(i).n > 0) => (Cum(j).n > 0)
          /\ Cardinality(Crossings) <= 1
    /\ (pc = "rendered") =>
          \A i \in 1..Len(styled) : \A j \in i..Len(styled) : styled[i] => styled[j]

C9_Witness ==
    /\ pc = "rendered"
    /\ Horizon >= 4
    /\ Positive # {}
    /\ FirstPositive = 3
    /\ Cum(2).n < 0
    /\ styled[Len(styled)]

\* C10: total_benefits is the sum of operational_benefit over all rows,
\* total_costs = initial_investment + annual_maintenance * time_horizon is
\* the sum of investment_cost + maintenance_cost over all rows, and
\* total_benefits - total_costs is the last row's cumulative_cf.
C10_Totals ==
    (pc = "done") =>
        /\ metrics.total_benefits = SumTo(years, "operational_benefit", Len(years))
        /\ metrics.total_costs =
              QAdd(args.initial_investment,
                   QMul(QMul(args.initial_investment, args.annual_maintenance_pct),
                        Int2Q(Horizon)))
        /\ metrics.total_costs =
              QAdd(SumTo(years, "investment_cost", Len(years)),
                   SumTo(years, "maintenance_cost", Len(years)))
        /\ QSub(metrics.total_benefits, metrics.total_costs) = Cum(Len(years))

C10_Witness ==
    /\ pc = "done"
    /\ Horizon >= 3
    /\ years[2].maintenance_cost.n > 0
    /\ metrics.total_benefits.n > 0
    /\ QLess(metrics.total_costs, metrics.total_benefits)

=============================================================================
